---- MODULE Spec2Model ----
(***************************************************************************)
(* Game of Life: the rule model, the neighbour counters and the stepping   *)
(* engines of src/gameoflife.rs (u8 cells with decay) and of               *)
(* src/game_of_life.rs (boolean cells), and the loops of the terminal      *)
(* front ends of src/presentation.rs and src/tui.rs.                       *)
(*                                                                         *)
(* A field is a function from <<x, y>>, 0 <= x < numx, 0 <= y < numy, to   *)
(* the cell's value (ndarray's Array2 indexed [[x, y]]).                   *)
(***************************************************************************)
EXTENDS Integers, FiniteSets, Sequences, TLC

VARIABLES pc, rule, gol_std, gol_conv, gol_fft, rule_args, par, frame, tui,
          iter, cli

vars == <<pc, rule, gol_std, gol_conv, gol_fft, rule_args, par, frame, tui,
          iter, cli>>

\* what the actions of the rule and of the whole-step games leave alone: the
\* workers of a step in progress, the rendered frame and the terminal front end
front == <<par, frame, tui>>

-----------------------------------------------------------------------------
(* Bounds of the model *)

\* generations computed per game
MaxGen == 2
\* largest `state` (alive value) handed to Rule::new
MaxState == 2

\* number of values of a u8
U8 == 256
\* length of the survival and birth masks
MaskLen == 9

Wrap8(n) == n % U8

-----------------------------------------------------------------------------
(* Rule model: NeighborRule, LifeRule, Rule *)

NeighborRule == {"Moore", "VonNeumann"}

One(k) == [kind |-> "One", one |-> k]
Range(a, b) == [kind |-> "Range", start |-> a, end |-> b]
Numbers(s) == [kind |-> "Numbers", array |-> s]
Raw(m) == [kind |-> "Raw", array |-> m]

\* the [bool; 9] that is true exactly at the counts of S
MaskOf(S) == [i \in 0..(MaskLen - 1) |-> i \in S]

\* the indices LifeRule::into_array writes to
IndicesWritten(lr) ==
    CASE lr.kind = "One" -> {lr.one}
      [] lr.kind = "Range" -> lr.start..(lr.end - 1)
      [] lr.kind = "Numbers" -> {lr.array[i] : i \in 1..Len(lr.array)}
      [] lr.kind = "Raw" -> {}

\* LifeRule::into_array: indexing return_array out of 0..8 panics
into_array_panics(lr) == \E i \in IndicesWritten(lr) : i >= MaskLen

\* return_array[i] = true
SetTrue(return_array, i) == [return_array EXCEPT ![i] = TRUE]

\* for i in array { return_array[*i] = true }, from the k-th element on
RECURSIVE into_array_numbers(_, _, _)
into_array_numbers(return_array, array, k) ==
    IF k > Len(array)
    THEN return_array
    ELSE into_array_numbers(SetTrue(return_array, array[k]), array, k + 1)

\* for i in range { return_array[i] = true }, from i on
RECURSIVE into_array_range(_, _, _)
into_array_range(return_array, i, end) ==
    IF i >= end
    THEN return_array
    ELSE into_array_range(SetTrue(return_array, i), i + 1, end)

\* into_array with the loop over Numbers begun at the second element
into_array_skips_first(lr) ==
    LET return_array == [i \in 0..(MaskLen - 1) |-> FALSE]
    IN  CASE lr.kind = "One" -> SetTrue(return_array, lr.one)
          [] lr.kind = "Range" -> into_array_range(return_array, lr.start, lr.end)
          [] lr.kind = "Numbers" -> into_array_numbers(return_array, lr.array, 2)
          [] lr.kind = "Raw" -> lr.array

\* LifeRule::into_array, when no index is out of 0..8
into_array(lr) ==
    LET return_array == [i \in 0..(MaskLen - 1) |-> FALSE]
    IN  CASE lr.kind = "One" -> SetTrue(return_array, lr.one)
          [] lr.kind = "Range" -> into_array_range(return_array, lr.start, lr.end)
          [] lr.kind = "Numbers" -> into_array_numbers(return_array, lr.array, 1)
          [] lr.kind = "Raw" -> lr.array

\* Rule::new: the masks of both specs, state and neighbor stored as given
Rule_new(survival, birth, state, neighbor) ==
    [survival |-> into_array(survival),
     birth |-> into_array(birth),
     state |-> state,
     neighbor |-> neighbor]

\* Rule::default
Rule_default ==
    [survival |-> MaskOf({2, 3}), birth |-> MaskOf({3}), state |-> 1,
     neighbor |-> "Moore"]

-----------------------------------------------------------------------------
(* Array2 and Option *)

Cells(shape) == (0..(shape[1] - 1)) \X (0..(shape[2] - 1))

Array2(shape, data) == [shape |-> shape, data |-> data]

\* Array2::get / Index: is (x, y) inside the array
InBounds(field, x, y) ==
    /\ 0 <= x /\ x < field.shape[1]
    /\ 0 <= y /\ y < field.shape[2]

None == [some |-> FALSE]
Some(v) == [some |-> TRUE, value |-> v]

\* `b as usize`, `b as u8`
AsInt(b) == IF b THEN 1 ELSE 0

-----------------------------------------------------------------------------
(* gameoflife.rs: GameOfLifeStd *)

\* GameOfLifeStd::new, GameOfLifeConvolution::new. Three fields keep the
\* history of the object: prev is the field at the start of the last
\* compute_next_generation call, gen the number of calls that returned, and
\* panicked whether a call panicked.
GameOfLife_new(field, rules) ==
    [field |-> field, rules |-> rules,
     numx |-> field.shape[1], numy |-> field.shape[2],
     prev |-> field, gen |-> 0, panicked |-> FALSE]

\* cell with coordinates past the edge wrapped to the opposite edge
cell_wrapping(self, x, y) ==
    Some(self.field.data[<<x % self.numx, y % self.numy>>])

\* cell with coordinates past the edge clamped to the last column and row
cell_clamped(self, x, y) ==
    IF self.numx = 0 \/ self.numy = 0
    THEN None
    ELSE Some(self.field.data[<<IF x < self.numx THEN x ELSE self.numx - 1,
                                IF y < self.numy THEN y ELSE self.numy - 1>>])

\* GameOfLifeStd::cell, GameOfLifeConvolution::cell
cell(self, x, y) ==
    IF InBounds(self.field, x, y) THEN Some(self.field.data[<<x, y>>]) ELSE None

\* right_border with the end of the slice taken as inclusive
right_border_inclusive(self, x) == IF x + 1 < self.numx THEN x + 1 ELSE self.numx

right_border(self, x) == IF x + 1 < self.numx THEN x + 2 ELSE self.numx

left_border(x) == IF x > 1 THEN x - 1 ELSE 0

\* bottom_border with the end of the slice taken as inclusive
bottom_border_inclusive(self, y) == IF y + 1 < self.numy THEN y + 1 ELSE self.numy

bottom_border(self, y) == IF y + 1 < self.numy THEN y + 2 ELSE self.numy

top_border(y) == IF y > 1 THEN y - 1 ELSE 0

\* the cells of s![left..right, top..bottom]
Slice(left, right, top, bottom) == (left..(right - 1)) \X (top..(bottom - 1))

\* whether the neighbour at (x, y), if inside the field, is alive
VonNeumannTerm(self, x, y) ==
    IF cell(self, x, y).some
    THEN AsInt(cell(self, x, y).value = self.rules.state)
    ELSE 0

\* GameOfLifeStd::count_living_neighbors
count_living_neighbors(self, x, y) ==
    IF self.rules.neighbor = "Moore"
    THEN Cardinality({c \in Slice(left_border(x), right_border(self, x),
                                  top_border(y), bottom_border(self, y)) :
                        self.field.data[c] = self.rules.state})
         - AsInt(self.field.data[<<x, y>>] = self.rules.state)
    ELSE (IF x # 0 THEN VonNeumannTerm(self, x - 1, y) ELSE 0)
         + VonNeumannTerm(self, x + 1, y)
         + (IF y # 0 THEN VonNeumannTerm(self, x, y - 1) ELSE 0)
         + VonNeumannTerm(self, x, y + 1)

\* Std_elem_temp with survival applied to cells that are not alive
Std_elem_temp_survival_of_any(self, x, y) ==
    LET count == count_living_neighbors(self, x, y)
        elem_field == self.field.data[<<x, y>>]
    IN  IF self.rules.birth[count] \/ self.rules.survival[count]
        THEN self.rules.state
        ELSE IF elem_field # 0 THEN elem_field - 1 ELSE 0

\* the closure of GameOfLifeStd::compute_next_generation: the value left in
\* elem_temp (default 0) for the cell at (x, y)
Std_elem_temp(self, x, y) ==
    LET count == count_living_neighbors(self, x, y)
        elem_field == self.field.data[<<x, y>>]
    IN  IF self.rules.birth[count]
           \/ (elem_field = self.rules.state /\ self.rules.survival[count])
        THEN self.rules.state
        ELSE IF elem_field # 0 THEN elem_field - 1 ELSE 0

\* Std_temp allocated with the two dimensions exchanged and left at its default
Std_temp_transposed(self) ==
    Array2(<<self.numy, self.numx>>,
           [c \in Cells(<<self.numy, self.numx>>) |-> 0])

\* the temp array of GameOfLifeStd::compute_next_generation once every cell
\* has been processed
Std_temp(self) ==
    Array2(<<self.numx, self.numy>>,
           [c \in Cells(<<self.numx, self.numy>>) |-> Std_elem_temp(self, c[1], c[2])])

-----------------------------------------------------------------------------
(* gameoflife.rs: GameOfLifeStd::compute_next_generation cell by cell *)

\* Array2::<RwLock<u8>>::default((self.numx, self.numy))
Array2_default(shape) == Array2(shape, [c \in Cells(shape) |-> 0])

\* Zip_producer with the values this call has written put in place of the
\* field's
Zip_producer_in_place(self, work) ==
    [self EXCEPT !.field =
        Array2(self.field.shape,
               [c \in Cells(self.field.shape) |->
                   IF c \in work.pending
                   THEN self.field.data[c]
                   ELSE work.temp.data[c]])]

\* Zip::indexed(&self.field) and the &self the closure captures: the game
\* whose cells a worker reads
Zip_producer(self, work) == self

-----------------------------------------------------------------------------
(* gameoflife.rs: GameOfLifeConvolution *)

\* arr2(&[[1, 1, 1], [1, 0, 1], [1, 1, 1]])
MooreKernel ==
    Array2(<<3, 3>>, [k \in Cells(<<3, 3>>) |-> IF k = <<1, 1>> THEN 0 ELSE 1])

\* the Von Neumann kernel with the centre set
VonNeumannKernel_with_centre ==
    Array2(<<3, 3>>,
           [k \in Cells(<<3, 3>>) |->
               IF (k[1] + k[2]) % 2 = 1 \/ k = <<1, 1>> THEN 1 ELSE 0])

\* arr2(&[[0, 1, 0], [1, 0, 1], [0, 1, 0]])
VonNeumannKernel ==
    Array2(<<3, 3>>, [k \in Cells(<<3, 3>>) |-> IF (k[1] + k[2]) % 2 = 1 THEN 1 ELSE 0])

\* the kernel chosen by GameOfLifeConvolution::compute_next_generation
Conv_kernel(self) ==
    IF self.rules.neighbor = "Moore" THEN MooreKernel ELSE VonNeumannKernel

\* Padded under BorderMode::Nearest: outside the array the value of the
\* nearest element
Padded_nearest(data, x, y) ==
    LET clamp(v, n) == IF v < 0 THEN 0 ELSE IF v >= n THEN n - 1 ELSE v
    IN  IF data.shape[1] = 0 \/ data.shape[2] = 0
        THEN 0
        ELSE data.data[<<clamp(x, data.shape[1]), clamp(y, data.shape[2])>>]

\* the value of `data` at (x, y) under BorderMode::Constant(0)
Padded(data, x, y) == IF InBounds(data, x, y) THEN data.data[<<x, y>>] ELSE 0

\* ndarray_ndimage::convolve(data, kernel, BorderMode::Constant(0), 0) for a
\* 3x3 kernel: the kernel is centred on each cell and mirrored
convolve(data, kernel) ==
    LET term(x, y, i, j) == kernel.data[<<i, j>>] * Padded(data, x + 1 - i, y + 1 - j)
        row(x, y, i) == term(x, y, i, 0) + term(x, y, i, 1) + term(x, y, i, 2)
    IN  Array2(data.shape,
               [c \in Cells(data.shape) |->
                   row(c[1], c[2], 0) + row(c[1], c[2], 1) + row(c[1], c[2], 2)])

\* self.field.map(|elem| (*elem == self.rules.state) as usize)
Conv_alive(self) ==
    Array2(self.field.shape,
           [c \in Cells(self.field.shape) |->
               AsInt(self.field.data[c] = self.rules.state)])

\* temp: the convolution of the is-alive mask with the kernel
Conv_temp(self) == convolve(Conv_alive(self), Conv_kernel(self))

\* Conv_first with a cell that does not survive dropped to 0 at once
Conv_first_no_decay(elem, survive, state) == AsInt(elem = state) * survive

\* one element of the array assigned to self.field by the first statement:
\* (elem == state) as u8 * survive + dec(elem * (1 - survive))
Conv_first(elem, survive, state) ==
    LET product == elem * (1 - survive)
    IN  AsInt(elem = state) * survive + (IF product # 0 THEN product - 1 ELSE 0)

\* Conv_second with state added in place of state - elem
Conv_second_adds_state(first, birth, state) == Wrap8(first + state * birth)

\* Conv_second with the birth set applied to cells at 0 only
Conv_second_on_dead_only(first, birth, state) ==
    IF first = 0 THEN Wrap8(state * birth) ELSE first

\* one element after `self.field += (state - elem) * birth`, in u8 arithmetic
\* that wraps
Conv_second(first, birth, state) ==
    Wrap8(first + Wrap8(state - first) * birth)

\* self.field after the first statement of the update, temp being the
\* convolution
Conv_field_first(self, temp) ==
    Array2(self.field.shape,
           [c \in Cells(self.field.shape) |->
               Conv_first(self.field.data[c],
                          AsInt(self.rules.survival[temp.data[c]]),
                          self.rules.state)])

\* self.field after the second statement of the update, first being the field
\* the first statement left
Conv_field_second(self, temp, first) ==
    Array2(self.field.shape,
           [c \in Cells(self.field.shape) |->
               Conv_second(first.data[c],
                           AsInt(self.rules.birth[temp.data[c]]),
                           self.rules.state)])

\* whether `self.rules.state - elem` goes below 0 for some element of the
\* field the first statement left: a panic with overflow checks, a wrap without
Conv_overflows(self, first) ==
    \E c \in Cells(self.field.shape) : first.data[c] > self.rules.state

\* whether the array handed to convolve has no element; what the library does
\* with such an array is not fixed by this repository
Conv_of_empty(self) == self.numx = 0 \/ self.numy = 0

-----------------------------------------------------------------------------
(* game_of_life.rs: the boolean GameOfLifeStd, GameOfLifeConvolution and   *)
(* GameOfLifeFFT                                                           *)

\* GameOfLifeStd::new, GameOfLifeConvolution::new, GameOfLifeFFT::new
BoolGameOfLife_new(field) ==
    [field |-> field,
     numx |-> field.shape[1], numy |-> field.shape[2],
     prev |-> field, gen |-> 0, panicked |-> FALSE]

\* self.field.map(|x| *x as u8), self.field.map(|x| *x as isize)
Bool_as_int(self) ==
    Array2(self.field.shape,
           [c \in Cells(self.field.shape) |-> AsInt(self.field.data[c])])

\* Bool_count_living_neighbors with the centre cell left in the sum
Bool_count_with_centre(self, x, y) ==
    Cardinality({c \in Slice(left_border(x), right_border(self, x),
                             top_border(y), bottom_border(self, y)) :
                   self.field.data[c]})

\* GameOfLifeStd::count_living_neighbors of game_of_life.rs
Bool_count_living_neighbors(self, x, y) ==
    Cardinality({c \in Slice(left_border(x), right_border(self, x),
                             top_border(y), bottom_border(self, y)) :
                   self.field.data[c]})
    - AsInt(self.field.data[<<x, y>>])

\* the rule every engine of game_of_life.rs applies to a cell and its count
Bool_rule(elem_field, count) == count = 3 \/ (elem_field /\ count = 2)

\* temp of the boolean GameOfLifeStd::compute_next_generation
BoolStd_temp(self) ==
    Array2(<<self.numx, self.numy>>,
           [c \in Cells(<<self.numx, self.numy>>) |->
               Bool_rule(self.field.data[c],
                         Bool_count_living_neighbors(self, c[1], c[2]))])

\* the field the boolean GameOfLifeConvolution::compute_next_generation leaves
BoolConv_field(self) ==
    LET temp == convolve(Bool_as_int(self), MooreKernel)
    IN  Array2(self.field.shape,
               [c \in Cells(self.field.shape) |->
                   Bool_rule(self.field.data[c], temp.data[c])])

\* fftconvolve(in1, in2, Mode::Full): the full linear convolution, of shape
\* in1.shape + in2.shape - 1
fftconvolve_full(in1, in2) ==
    LET shape == <<in1.shape[1] + in2.shape[1] - 1, in1.shape[2] + in2.shape[2] - 1>>
        term(x, y, i, j) == in2.data[<<i, j>>] * Padded(in1, x - i, y - j)
        row(x, y, i) == term(x, y, i, 0) + term(x, y, i, 1) + term(x, y, i, 2)
    IN  Array2(shape,
               [c \in Cells(shape) |->
                   row(c[1], c[2], 0) + row(c[1], c[2], 1) + row(c[1], c[2], 2)])

\* temp of GameOfLifeFFT::compute_next_generation
FFT_temp(self) == fftconvolve_full(Bool_as_int(self), MooreKernel)

\* Zip::from(&mut self.field).and(&temp) panics unless the shapes are equal
Zip_and_panics(field, temp) == field.shape # temp.shape

\* the field GameOfLifeFFT::compute_next_generation leaves when the Zip is built
FFT_field(self) ==
    LET temp == FFT_temp(self)
    IN  Array2(self.field.shape,
               [c \in Cells(self.field.shape) |->
                   Bool_rule(self.field.data[c], temp.data[c])])

-----------------------------------------------------------------------------
(* presentation.rs and tui.rs: TUI::start *)

\* let polling_time = 200
polling_time == 200

\* whether a 'q' waits on stdin
HasQ(stdin) == \E k \in 1..Len(stdin) : stdin[k] = "q"

\* what `for key in &mut stdin` leaves on stdin: nothing when it runs to the
\* end, the keys behind the first 'q' when it returns there
AfterKeys(stdin) ==
    IF HasQ(stdin)
    THEN LET q == CHOOSE k \in 1..Len(stdin) :
                     /\ stdin[k] = "q"
                     /\ \A j \in 1..(k - 1) : stdin[j] # "q"
         IN  SubSeq(stdin, q + 1, Len(stdin))
    ELSE <<>>

\* the front end before start is called. module is the file of the TUI; calls
\* counts the compute_next_generation calls made, keys the keys pressed, and
\* q_at is the value of calls when the first 'q' arrived (-1 before)
TUI_new(module) ==
    [module |-> module, pc |-> "new", iterations |-> 0,
     sleep_how_often |-> 0, remaining_sleep |-> 0, i |-> 0, polls |-> 0,
     stdin |-> <<>>, calls |-> 0, keys |-> 0, q_at |-> -1]

-----------------------------------------------------------------------------
(* Inputs *)

\* the standard rule, as main.rs and the tests write it
StdSurvival == Raw(MaskOf({2, 3}))
StdBirth == Raw(MaskOf({3}))

\* survival and birth arguments given to Rule::new
SurvivalInputs == {StdSurvival, Range(1, 5), One(0)}
BirthInputs == {StdBirth, One(1), Numbers(<<2, 0, 2>>), Numbers(<<3, 9>>)}

\* longest slice handed to LifeRule::Numbers
MaxNumbersLen == 3

\* the counts written in a LifeRule: the indices of a mask and the first
\* number past them
Counts == 0..MaskLen

\* every form of LifeRule over these counts
LifeRuleForms ==
    {One(k) : k \in Counts}
    \cup {Range(a, b) : a \in Counts, b \in 0..(MaskLen + 1)}
    \cup {Numbers(s) : s \in UNION {[1..n -> Counts] : n \in 0..MaxNumbersLen}}
    \cup {Raw(m) : m \in [0..(MaskLen - 1) -> BOOLEAN]}

\* the rules and the shapes of the games stepped cell by cell
ParRules ==
    {Rule_new(f[1], f[2], state, neighbor) :
        f \in {<<StdSurvival, StdBirth>>, <<Range(1, 5), One(1)>>},
        state \in 1..MaxState, neighbor \in NeighborRule}
ParShapes == {<<1, 2>>, <<2, 1>>}

\* largest numx and numy of the grids that hold a block
MaxBlockGrid == 6

\* the 0/1 field whose alive cells are the 2x2 block with corner (bx, by)
BlockField(shape, bx, by) ==
    Array2(shape,
           [c \in Cells(shape) |->
               IF c[1] \in {bx, bx + 1} /\ c[2] \in {by, by + 1} THEN 1 ELSE 0])

\* most iterations asked of TUI::start
MaxIterations == 2
\* most keys pressed during a run
MaxKeys == 2
\* the keys pressed
Keys == {"q", "x"}
\* time_per_iteration, in ms: below, at and above polling_time
TimesPerIteration == {0, 100, 200, 500}
\* the shape of the games shown in the terminal
TuiShape == <<1, 2>>

\* fields of these shapes are drawn with every cell value in 0..state
SmallShapes == {<<1, 1>>, <<1, 2>>, <<2, 1>>, <<2, 2>>, <<1, 3>>, <<3, 1>>}
\* fields of these shapes are drawn as main does: gen_bool(p) as u8 * state
LargeShapes == {<<2, 3>>, <<3, 2>>, <<3, 3>>}
Shapes == SmallShapes \cup LargeShapes
\* the shapes main builds from -x 0 or -y 0: into_shape accepts them
ZeroShapes == {<<0, 1>>, <<2, 0>>, <<0, 0>>}

InitialFields(shape, state) ==
    {Array2(shape, data) :
        data \in [Cells(shape) ->
                    IF shape \in SmallShapes THEN 0..state ELSE {0, state}]}

BoolInitialFields(shape) ==
    {Array2(shape, data) : data \in [Cells(shape) -> BOOLEAN]}

NoRule == [none |-> TRUE]
NoGame == [none |-> TRUE]

\* no call of Rule::new made yet
NoArgs == [none |-> TRUE]
\* the arguments of the last Rule::new call
Rule_args(survival, birth, state, neighbor) ==
    [survival |-> survival, birth |-> birth, state |-> state, neighbor |-> neighbor]

\* no compute_next_generation call in progress
Idle == [stepping |-> FALSE]
\* no frame rendered yet
NoFrame == [gen |-> -1, cells |-> <<>>]
\* no terminal front end built
NoTui == [pc |-> "none"]

\* no iterator made, no --neighbor argument parsed
NoIter == [pc |-> "none"]
NoCli == [pc |-> "none"]

-----------------------------------------------------------------------------
(* The state machine *)

Init ==
    /\ pc = "start"
    /\ rule = NoRule
    /\ gol_std = NoGame
    /\ gol_conv = NoGame
    /\ gol_fft = NoGame
    /\ rule_args = NoArgs
    /\ par = Idle
    /\ frame = NoFrame
    /\ iter = NoIter
    /\ cli = NoCli
    /\ tui = NoTui

\* one call Rule::new(survival, birth, state, neighbor): it panics in
\* into_array, or returns the Rule
Rule_new_call(survival, birth, state, neighbor) ==
    /\ rule_args' = Rule_args(survival, birth, state, neighbor)
    /\ IF into_array_panics(survival) \/ into_array_panics(birth)
       THEN /\ pc' = "panic"
            /\ rule' = rule
       ELSE /\ pc' = "rule"
            /\ rule' = Rule_new(survival, birth, state, neighbor)
    /\ UNCHANGED <<gol_std, gol_conv, gol_fft, front, iter, cli>>

\* Rule::new(survival, birth, state, neighbor)
RuleNew ==
    /\ pc = "start"
    /\ \E survival \in SurvivalInputs, birth \in BirthInputs,
          state \in 0..MaxState, neighbor \in NeighborRule :
          Rule_new_call(survival, birth, state, neighbor)

\* Rule::new with its survival or its birth spec drawn from every form
RuleNewForms ==
    /\ pc = "start"
    /\ \E lr \in LifeRuleForms, state \in 0..MaxState, neighbor \in NeighborRule :
          \/ Rule_new_call(lr, StdBirth, state, neighbor)
          \/ Rule_new_call(StdSurvival, lr, state, neighbor)

\* Rule::default()
RuleDefault ==
    /\ pc = "start"
    /\ pc' = "rule"
    /\ rule' = Rule_default
    /\ UNCHANGED <<gol_std, gol_conv, gol_fft, rule_args, front, iter, cli>>

\* GameOfLifeStd::new and GameOfLifeConvolution::new on copies of one field
New ==
    /\ pc = "rule"
    /\ \E shape \in Shapes \cup ZeroShapes :
         \E field \in InitialFields(shape, rule.state) :
            /\ gol_std' = GameOfLife_new(field, rule)
            /\ gol_conv' = GameOfLife_new(field, rule)
    /\ pc' = "gameoflife"
    /\ UNCHANGED <<rule, gol_fft, rule_args, front, iter, cli>>

\* GameOfLifeStd::compute_next_generation, called as the tests of
\* gameoflife.rs call it: before the convolution game's, while neither has
\* panicked
GameOfLifeStd_compute_next_generation ==
    /\ pc = "gameoflife"
    /\ gol_std.gen < MaxGen
    /\ gol_std.gen = gol_conv.gen
    /\ ~gol_conv.panicked
    /\ gol_std' = [gol_std EXCEPT !.field = Std_temp(gol_std),
                                  !.prev = gol_std.field,
                                  !.gen = @ + 1]
    /\ UNCHANGED <<pc, rule, gol_conv, gol_fft, rule_args, front, iter, cli>>

\* GameOfLifeConvolution::compute_next_generation, called after the standard
\* game's. Where state - elem goes below 0 the call panics or wraps, as the
\* build checks overflow or not; on a field without elements it panics or
\* returns, as the library does.
GameOfLifeConvolution_compute_next_generation ==
    /\ pc = "gameoflife"
    /\ gol_conv.gen < gol_std.gen
    /\ ~gol_conv.panicked
    /\ LET temp == Conv_temp(gol_conv)
           first == Conv_field_first(gol_conv, temp)
           second == Conv_field_second(gol_conv, temp, first)
       IN  IF Conv_overflows(gol_conv, first) \/ Conv_of_empty(gol_conv)
           THEN \/ gol_conv' = [gol_conv EXCEPT !.field = first,
                                                !.prev = gol_conv.field,
                                                !.panicked = TRUE]
                \/ gol_conv' = [gol_conv EXCEPT !.field = second,
                                                !.prev = gol_conv.field,
                                                !.gen = @ + 1]
           ELSE gol_conv' = [gol_conv EXCEPT !.field = second,
                                             !.prev = gol_conv.field,
                                             !.gen = @ + 1]
    /\ UNCHANGED <<pc, rule, gol_std, gol_fft, rule_args, front, iter, cli>>

\* the three `new` of game_of_life.rs on copies of one boolean field
BoolNew ==
    /\ pc = "start"
    /\ \E shape \in Shapes :
         \E field \in BoolInitialFields(shape) :
            /\ gol_std' = BoolGameOfLife_new(field)
            /\ gol_conv' = BoolGameOfLife_new(field)
            /\ gol_fft' = BoolGameOfLife_new(field)
    /\ pc' = "game_of_life"
    /\ UNCHANGED <<rule, rule_args, front, iter, cli>>

\* GameOfLifeStd::compute_next_generation of game_of_life.rs
BoolStd_compute_next_generation ==
    /\ pc = "game_of_life"
    /\ gol_std.gen < MaxGen
    /\ gol_std' = [gol_std EXCEPT !.field = BoolStd_temp(gol_std),
                                  !.prev = gol_std.field,
                                  !.gen = @ + 1]
    /\ UNCHANGED <<pc, rule, gol_conv, gol_fft, rule_args, front, iter, cli>>

\* GameOfLifeConvolution::compute_next_generation of game_of_life.rs
BoolConvolution_compute_next_generation ==
    /\ pc = "game_of_life"
    /\ gol_conv.gen < MaxGen
    /\ gol_conv' = [gol_conv EXCEPT !.field = BoolConv_field(gol_conv),
                                    !.prev = gol_conv.field,
                                    !.gen = @ + 1]
    /\ UNCHANGED <<pc, rule, gol_std, gol_fft, rule_args, front, iter, cli>>

\* GameOfLifeFFT::compute_next_generation
GameOfLifeFFT_compute_next_generation ==
    /\ pc = "game_of_life"
    /\ gol_fft.gen < MaxGen
    /\ ~gol_fft.panicked
    /\ IF Zip_and_panics(gol_fft.field, FFT_temp(gol_fft))
       THEN gol_fft' = [gol_fft EXCEPT !.panicked = TRUE]
       ELSE gol_fft' = [gol_fft EXCEPT !.field = FFT_field(gol_fft),
                                       !.prev = gol_fft.field,
                                       !.gen = @ + 1]
    /\ UNCHANGED <<pc, rule, gol_std, gol_conv, rule_args, front, iter, cli>>

Next ==
    \/ RuleNew
    \/ RuleDefault
    \/ New
    \/ GameOfLifeStd_compute_next_generation
    \/ GameOfLifeConvolution_compute_next_generation
    \/ BoolNew
    \/ BoolStd_compute_next_generation
    \/ BoolConvolution_compute_next_generation
    \/ GameOfLifeFFT_compute_next_generation

Spec == Init /\ [][Next]_vars

-----------------------------------------------------------------------------
(* Both engines under the standard two-state Moore rule, from a grid of at *)
(* least 4x4 whose alive cells are one 2x2 block off the border            *)

InitBlock ==
    /\ pc = "gameoflife"
    /\ rule = Rule_new(StdSurvival, StdBirth, 1, "Moore")
    /\ \E numx, numy \in 4..MaxBlockGrid :
         \E bx \in 1..(numx - 3), by \in 1..(numy - 3) :
            /\ gol_std = GameOfLife_new(BlockField(<<numx, numy>>, bx, by), rule)
            /\ gol_conv = GameOfLife_new(BlockField(<<numx, numy>>, bx, by), rule)
    /\ gol_fft = NoGame
    /\ rule_args = NoArgs
    /\ par = Idle
    /\ frame = NoFrame
    /\ iter = NoIter
    /\ cli = NoCli
    /\ tui = NoTui

NextBlock ==
    \/ GameOfLifeStd_compute_next_generation
    \/ GameOfLifeConvolution_compute_next_generation

SpecBlock == InitBlock /\ [][NextBlock]_vars

-----------------------------------------------------------------------------
(* The terminal front ends: TUI of presentation.rs over the standard game  *)
(* of gameoflife.rs, TUI of tui.rs over the one of game_of_life.rs         *)

InitTui ==
    /\ pc = "tui"
    /\ rule = Rule_default
    /\ \/ /\ tui \in {TUI_new("presentation"), TUI_new("gif")}
          /\ \E field \in InitialFields(TuiShape, rule.state) :
                gol_std = GameOfLife_new(field, rule)
       \/ /\ tui = TUI_new("tui")
          /\ \E field \in BoolInitialFields(TuiShape) :
                gol_std = BoolGameOfLife_new(field)
    /\ gol_conv = NoGame
    /\ gol_fft = NoGame
    /\ rule_args = NoArgs
    /\ par = Idle
    /\ frame = NoFrame
    /\ iter = NoIter
    /\ cli = NoCli

\* a key arrives on stdin while start runs
KeyPress ==
    /\ pc = "tui"
    /\ tui.module \in {"presentation", "tui"}
    /\ tui.pc \notin {"new", "returned"}
    /\ tui.keys < MaxKeys
    /\ \E key \in Keys :
         tui' = [tui EXCEPT !.stdin = Append(@, key),
                            !.keys = @ + 1,
                            !.q_at = IF key = "q" /\ @ = -1 THEN tui.calls ELSE @]
    /\ UNCHANGED <<pc, rule, gol_std, gol_conv, gol_fft, rule_args, par, frame, iter, cli>>

\* presentation.rs, TUI::start up to the loop
TUI_start ==
    /\ pc = "tui"
    /\ tui.module = "presentation"
    /\ tui.pc = "new"
    /\ \E iterations \in 0..MaxIterations, time_per_iteration \in TimesPerIteration :
         LET sleep_how_often == time_per_iteration \div polling_time
         IN  tui' = [tui EXCEPT
                        !.pc = "for",
                        !.iterations = iterations,
                        !.sleep_how_often = sleep_how_often,
                        !.remaining_sleep =
                            time_per_iteration - sleep_how_often * polling_time]
    /\ UNCHANGED <<pc, rule, gol_std, gol_conv, gol_fft, rule_args, par, frame, iter, cli>>

\* presentation.rs, TUI::start: compute_next_generation and draw_field of
\* one iteration
TUI_compute ==
    /\ pc = "tui"
    /\ tui.module = "presentation"
    /\ tui.pc = "for"
    /\ tui.i < tui.iterations + 1
    /\ gol_std' = [gol_std EXCEPT !.field = Std_temp(gol_std),
                                  !.prev = gol_std.field,
                                  !.gen = @ + 1]
    /\ tui' = [tui EXCEPT !.pc = "poll", !.polls = 0, !.calls = @ + 1]
    /\ UNCHANGED <<pc, rule, gol_conv, gol_fft, rule_args, par, frame, iter, cli>>

\* presentation.rs, TUI::start: one round of the polling loop, the keys read
\* and, without a 'q', a sleep of polling_time
TUI_poll ==
    /\ pc = "tui"
    /\ tui.module = "presentation"
    /\ tui.pc = "poll"
    /\ tui.polls < tui.sleep_how_often
    /\ tui' = [tui EXCEPT !.pc = IF HasQ(tui.stdin) THEN "returned" ELSE "poll",
                          !.polls = IF HasQ(tui.stdin) THEN @ ELSE @ + 1,
                          !.stdin = AfterKeys(@)]
    /\ UNCHANGED <<pc, rule, gol_std, gol_conv, gol_fft, rule_args, par, frame, iter, cli>>

\* presentation.rs, TUI::start: the polling loop is over, the remaining sleep
\* ends the iteration
TUI_sleep ==
    /\ pc = "tui"
    /\ tui.module = "presentation"
    /\ tui.pc = "poll"
    /\ tui.polls = tui.sleep_how_often
    /\ tui' = [tui EXCEPT !.pc = "for", !.i = @ + 1]
    /\ UNCHANGED <<pc, rule, gol_std, gol_conv, gol_fft, rule_args, par, frame, iter, cli>>

\* presentation.rs, TUI::start: Ok(()) after iterations + 1 iterations
TUI_return ==
    /\ pc = "tui"
    /\ tui.module = "presentation"
    /\ tui.pc = "for"
    /\ tui.i = tui.iterations + 1
    /\ tui' = [tui EXCEPT !.pc = "returned"]
    /\ UNCHANGED <<pc, rule, gol_std, gol_conv, gol_fft, rule_args, par, frame, iter, cli>>

\* tui.rs, TUI::start up to the loop
OldTUI_start ==
    /\ pc = "tui"
    /\ tui.module = "tui"
    /\ tui.pc = "new"
    /\ \E iterations \in 0..MaxIterations, time_per_iteration \in TimesPerIteration :
         tui' = [tui EXCEPT !.pc = "for",
                            !.iterations = iterations,
                            !.remaining_sleep = time_per_iteration]
    /\ UNCHANGED <<pc, rule, gol_std, gol_conv, gol_fft, rule_args, par, frame, iter, cli>>

\* tui.rs, TUI::start: the keys read at the head of an iteration
OldTUI_poll ==
    /\ pc = "tui"
    /\ tui.module = "tui"
    /\ tui.pc = "for"
    /\ tui.i < tui.iterations
    /\ tui' = [tui EXCEPT !.pc = IF HasQ(tui.stdin) THEN "returned" ELSE "compute",
                          !.stdin = AfterKeys(@)]
    /\ UNCHANGED <<pc, rule, gol_std, gol_conv, gol_fft, rule_args, par, frame, iter, cli>>

\* tui.rs, TUI::start: compute_next_generation, draw_field and the sleep of
\* one iteration
OldTUI_compute ==
    /\ pc = "tui"
    /\ tui.module = "tui"
    /\ tui.pc = "compute"
    /\ gol_std' = [gol_std EXCEPT !.field = BoolStd_temp(gol_std),
                                  !.prev = gol_std.field,
                                  !.gen = @ + 1]
    /\ tui' = [tui EXCEPT !.pc = "for", !.i = @ + 1, !.calls = @ + 1]
    /\ UNCHANGED <<pc, rule, gol_conv, gol_fft, rule_args, par, frame, iter, cli>>

\* tui.rs, TUI::start: the return after `iterations` iterations
OldTUI_return ==
    /\ pc = "tui"
    /\ tui.module = "tui"
    /\ tui.pc = "for"
    /\ tui.i = tui.iterations
    /\ tui' = [tui EXCEPT !.pc = "returned"]
    /\ UNCHANGED <<pc, rule, gol_std, gol_conv, gol_fft, rule_args, par, frame, iter, cli>>

\* presentation.rs, GIF::start up to the loop
GIF_start ==
    /\ pc = "tui"
    /\ tui.module = "gif"
    /\ tui.pc = "new"
    /\ \E iterations \in 0..MaxIterations, time_per_iteration \in TimesPerIteration :
         tui' = [tui EXCEPT !.pc = "for",
                            !.iterations = iterations,
                            !.remaining_sleep = time_per_iteration]
    /\ UNCHANGED <<pc, rule, gol_std, gol_conv, gol_fft, rule_args, par, frame, iter, cli>>

\* presentation.rs, GIF::start: one iteration of the loop, the frame written
\* from the grid and then compute_next_generation
GIF_iteration ==
    /\ pc = "tui"
    /\ tui.module = "gif"
    /\ tui.pc = "for"
    /\ tui.i < tui.iterations + 1
    /\ frame' = [gen |-> gol_std.gen,
                 cells |-> [c \in Cells(<<gol_std.numx, gol_std.numy>>) |->
                              cell(gol_std, c[1], c[2]).value]]
    /\ gol_std' = [gol_std EXCEPT !.field = Std_temp(gol_std),
                                  !.prev = gol_std.field,
                                  !.gen = @ + 1]
    /\ tui' = [tui EXCEPT !.i = @ + 1, !.calls = @ + 1]
    /\ UNCHANGED <<pc, rule, gol_conv, gol_fft, rule_args, par, iter, cli>>

\* presentation.rs, GIF::start: Ok(()) after iterations + 1 iterations
GIF_return ==
    /\ pc = "tui"
    /\ tui.module = "gif"
    /\ tui.pc = "for"
    /\ tui.i = tui.iterations + 1
    /\ tui' = [tui EXCEPT !.pc = "returned"]
    /\ UNCHANGED <<pc, rule, gol_std, gol_conv, gol_fft, rule_args, par, frame, iter, cli>>

NextTui ==
    \/ KeyPress
    \/ TUI_start
    \/ TUI_compute
    \/ TUI_poll
    \/ TUI_sleep
    \/ TUI_return
    \/ OldTUI_start
    \/ OldTUI_poll
    \/ OldTUI_compute
    \/ OldTUI_return
    \/ GIF_start
    \/ GIF_iteration
    \/ GIF_return

SpecTui == InitTui /\ [][NextTui]_vars

\* the calls of Rule::new alone, over every form of LifeRule
NextRule == RuleNewForms

SpecRule == Init /\ [][NextRule]_vars

-----------------------------------------------------------------------------
(* GameOfLifeStd::compute_next_generation thread by thread: the closure of *)
(* par_for_each guard by guard, with the RwLock of every cell; the frames  *)
(* rendered between the calls as GIF::start does, beside the convolution   *)
(* game                                                                    *)

\* threads of the pool that runs par_for_each
Threads == 2

\* RwLock::default(): no guard is out
RwLock_new == [readers |-> {}, writer |-> {}]

\* whether read() on the lock returns: no write guard is out
can_read(lock) == lock.writer = {}

\* whether write() on the lock returns: no guard is out
can_write(lock) == lock.readers = {} /\ lock.writer = {}

\* a thread between two runs of the closure. In a run, cell is the cell it
\* was handed, todo the cells count_living_neighbors has still to read, count
\* the sum so far and value what the closure is about to store
IdleThread ==
    [pc |-> "idle", cell |-> <<0, 0>>, todo |-> <<>>, count |-> 0, value |-> 0]

\* the call as par_for_each starts: temp at its default, every cell still to
\* be handed out, no guard out on field or temp. taken and writes record the
\* threads a cell was handed to and the threads that stored into its temp cell
Workers_new(shape) ==
    [stepping |-> TRUE,
     temp |-> Array2_default(shape),
     pending |-> Cells(shape),
     threads |-> [t \in 1..Threads |-> IdleThread],
     field_locks |-> [c \in Cells(shape) |-> RwLock_new],
     temp_locks |-> [c \in Cells(shape) |-> RwLock_new],
     taken |-> [c \in Cells(shape) |-> {}],
     writes |-> [c \in Cells(shape) |-> {}]]

\* Zip_split with the cell left for the other threads as well
Zip_split_shared(pending, c) == pending

\* what par_for_each leaves to hand out once the cell c went to a thread
Zip_split(pending, c) == pending \ {c}

\* elem_temp_lock with the lock of the field's cell taken for the temp cell's
elem_temp_lock_in_field(work, c) == work.field_locks[c]

\* the lock behind elem_temp of the closure run on the cell c
elem_temp_lock(work, c) == work.temp_locks[c]

\* the cells whose locks count_living_neighbors(x, y) reads, in the order in
\* which it reads them. Moore: the cells of the slice, then the cell itself
\* (which is subtracted); Von Neumann: those of the four neighbours that
\* cell() finds in the field
count_reads(self, x, y) ==
    IF self.rules.neighbor = "Moore"
    THEN LET left == left_border(x)
             top == top_border(y)
             width == bottom_border(self, y) - top
             len == (right_border(self, x) - left) * width
         IN  [k \in 1..len |-> <<left + ((k - 1) \div width), top + ((k - 1) % width)>>]
                \o <<<<x, y>>>>
    ELSE LET inside(d) == InBounds(self.field, d[1], d[2])
         IN  SelectSeq((IF x # 0 THEN <<<<x - 1, y>>>> ELSE <<>>)
                          \o <<<<x + 1, y>>>>
                          \o (IF y # 0 THEN <<<<x, y - 1>>>> ELSE <<>>)
                          \o <<<<x, y + 1>>>>,
                       inside)

\* par_for_each returning at once, whatever is left to process
par_for_each_returns_early(work) == TRUE

\* par_for_each returns once every cell was handed out and every closure has
\* finished
par_for_each_returns(work) ==
    /\ work.pending = {}
    /\ \A t \in 1..Threads : work.threads[t].pc = "idle"

InitPar ==
    /\ pc = "gameoflife"
    /\ rule \in ParRules
    /\ \E shape \in ParShapes :
         \E field \in InitialFields(shape, rule.state) :
            /\ gol_std = GameOfLife_new(field, rule)
            /\ gol_conv = GameOfLife_new(field, rule)
    /\ gol_fft = NoGame
    /\ rule_args = NoArgs
    /\ par = Idle
    /\ frame = NoFrame
    /\ iter = NoIter
    /\ cli = NoCli
    /\ tui = NoTui

\* GIF::start, one frame: every cell read with cell(x, y)
GIF_frame ==
    /\ pc = "gameoflife"
    /\ ~par.stepping
    /\ frame.gen < gol_std.gen
    /\ frame' = [gen |-> gol_std.gen,
                 cells |-> [c \in Cells(<<gol_std.numx, gol_std.numy>>) |->
                              cell(gol_std, c[1], c[2]).value]]
    /\ UNCHANGED <<pc, rule, gol_std, gol_conv, gol_fft, rule_args, par, tui, iter, cli>>

\* GameOfLifeStd::compute_next_generation is entered, after the frame of the
\* current generation: temp is allocated and par_for_each starts its threads
GameOfLifeStd_begin ==
    /\ pc = "gameoflife"
    /\ ~par.stepping
    /\ gol_std.gen < MaxGen
    /\ gol_std.gen = gol_conv.gen
    /\ frame.gen = gol_std.gen
    /\ par' = Workers_new(<<gol_std.numx, gol_std.numy>>)
    /\ gol_std' = [gol_std EXCEPT !.prev = gol_std.field]
    /\ UNCHANGED <<pc, rule, gol_conv, gol_fft, rule_args, frame, tui, iter, cli>>

\* a thread is handed a cell and the closure begins on it
Closure_begin ==
    /\ pc = "gameoflife"
    /\ par.stepping
    /\ \E t \in 1..Threads, c \in par.pending :
         /\ par.threads[t].pc = "idle"
         /\ par' = [par EXCEPT
                      !.pending = Zip_split(@, c),
                      !.taken[c] = @ \cup {t},
                      !.threads[t] =
                          LET todo == count_reads(gol_std, c[1], c[2])
                          IN  [pc |-> IF todo = <<>> THEN "if" ELSE "count",
                               cell |-> c, todo |-> todo, count |-> 0, value |-> 0]]
    /\ UNCHANGED <<pc, rule, gol_std, gol_conv, gol_fft, rule_args, frame, tui, iter, cli>>

\* count_living_neighbors: read() on the lock of the next cell to count
Closure_count_read ==
    /\ pc = "gameoflife"
    /\ par.stepping
    /\ \E t \in 1..Threads :
         LET th == par.threads[t]
         IN  /\ th.pc = "count"
             /\ can_read(par.field_locks[Head(th.todo)])
             /\ par' = [par EXCEPT
                          !.field_locks[Head(th.todo)].readers = @ \cup {t},
                          !.threads[t] = [th EXCEPT !.pc = "counted"]]
    /\ UNCHANGED <<pc, rule, gol_std, gol_conv, gol_fft, rule_args, frame, tui, iter, cli>>

\* count_living_neighbors: the cell under the guard is compared with state,
\* added to the sum (the cell itself, read last under Moore, is subtracted),
\* and the guard is dropped
Closure_count_drop ==
    /\ pc = "gameoflife"
    /\ par.stepping
    /\ \E t \in 1..Threads :
         LET th == par.threads[t]
             d == Head(th.todo)
             alive == AsInt(Zip_producer(gol_std, par).field.data[d]
                                = gol_std.rules.state)
             last == Len(th.todo) = 1
         IN  /\ th.pc = "counted"
             /\ par' = [par EXCEPT
                          !.field_locks[d].readers = @ \ {t},
                          !.threads[t] =
                              [th EXCEPT
                                 !.pc = IF last THEN "if" ELSE "count",
                                 !.todo = Tail(@),
                                 !.count = IF gol_std.rules.neighbor = "Moore" /\ last
                                           THEN @ - alive
                                           ELSE @ + alive]]
    /\ UNCHANGED <<pc, rule, gol_std, gol_conv, gol_fft, rule_args, frame, tui, iter, cli>>

\* the condition of the `if`: with the count in the birth set the thread goes
\* on to write state; otherwise read() on the lock of elem_field
Closure_if ==
    /\ pc = "gameoflife"
    /\ par.stepping
    /\ \E t \in 1..Threads :
         LET th == par.threads[t]
         IN  /\ th.pc = "if"
             /\ IF gol_std.rules.birth[th.count]
                THEN par' = [par EXCEPT !.threads[t] =
                                [th EXCEPT !.pc = "write",
                                           !.value = gol_std.rules.state]]
                ELSE /\ can_read(par.field_locks[th.cell])
                     /\ par' = [par EXCEPT
                                  !.field_locks[th.cell].readers = @ \cup {t},
                                  !.threads[t] = [th EXCEPT !.pc = "if_read"]]
    /\ UNCHANGED <<pc, rule, gol_std, gol_conv, gol_fft, rule_args, frame, tui, iter, cli>>

\* the condition of the `if` is decided under the guard on elem_field, and
\* the guard is dropped
Closure_if_drop ==
    /\ pc = "gameoflife"
    /\ par.stepping
    /\ \E t \in 1..Threads :
         LET th == par.threads[t]
             elem_field == Zip_producer(gol_std, par).field.data[th.cell]
         IN  /\ th.pc = "if_read"
             /\ par' = [par EXCEPT
                          !.field_locks[th.cell].readers = @ \ {t},
                          !.threads[t] =
                              IF /\ elem_field = gol_std.rules.state
                                 /\ gol_std.rules.survival[th.count]
                              THEN [th EXCEPT !.pc = "write",
                                              !.value = gol_std.rules.state]
                              ELSE [th EXCEPT !.pc = "else_if"]]
    /\ UNCHANGED <<pc, rule, gol_std, gol_conv, gol_fft, rule_args, frame, tui, iter, cli>>

\* the condition of the `else if`: read() on the lock of elem_field
Closure_else_if ==
    /\ pc = "gameoflife"
    /\ par.stepping
    /\ \E t \in 1..Threads :
         LET th == par.threads[t]
         IN  /\ th.pc = "else_if"
             /\ can_read(par.field_locks[th.cell])
             /\ par' = [par EXCEPT
                          !.field_locks[th.cell].readers = @ \cup {t},
                          !.threads[t] = [th EXCEPT !.pc = "else_if_read"]]
    /\ UNCHANGED <<pc, rule, gol_std, gol_conv, gol_fft, rule_args, frame, tui, iter, cli>>

\* the condition of the `else if` is decided and the guard dropped: the
\* thread goes on to the decrement, or the closure ends on a cell at 0
Closure_else_if_drop ==
    /\ pc = "gameoflife"
    /\ par.stepping
    /\ \E t \in 1..Threads :
         LET th == par.threads[t]
             elem_field == Zip_producer(gol_std, par).field.data[th.cell]
         IN  /\ th.pc = "else_if_read"
             /\ par' = [par EXCEPT
                          !.field_locks[th.cell].readers = @ \ {t},
                          !.threads[t] = IF elem_field # 0
                                         THEN [th EXCEPT !.pc = "read"]
                                         ELSE IdleThread]
    /\ UNCHANGED <<pc, rule, gol_std, gol_conv, gol_fft, rule_args, frame, tui, iter, cli>>

\* the right-hand side `*elem_field.read() - 1` of the second assignment: the
\* read guard stays out until the statement ends
Closure_read ==
    /\ pc = "gameoflife"
    /\ par.stepping
    /\ \E t \in 1..Threads :
         LET th == par.threads[t]
         IN  /\ th.pc = "read"
             /\ can_read(par.field_locks[th.cell])
             /\ par' = [par EXCEPT
                          !.field_locks[th.cell].readers = @ \cup {t},
                          !.threads[t] =
                              [th EXCEPT
                                 !.pc = "write",
                                 !.value =
                                     Zip_producer(gol_std, par).field.data[th.cell] - 1]]
    /\ UNCHANGED <<pc, rule, gol_std, gol_conv, gol_fft, rule_args, frame, tui, iter, cli>>

\* elem_temp.write(): the thread waits until no guard is out on the lock
Closure_write ==
    /\ pc = "gameoflife"
    /\ par.stepping
    /\ \E t \in 1..Threads :
         LET th == par.threads[t]
         IN  /\ th.pc = "write"
             /\ can_write(elem_temp_lock(par, th.cell))
             /\ par' = [par EXCEPT
                          !.temp_locks[th.cell].writer = {t},
                          !.threads[t] = [th EXCEPT !.pc = "store"]]
    /\ UNCHANGED <<pc, rule, gol_std, gol_conv, gol_fft, rule_args, frame, tui, iter, cli>>

\* the value is stored in the temp cell and the write guard dropped; the
\* closure ends unless the read guard of the decrement is still out
Closure_store ==
    /\ pc = "gameoflife"
    /\ par.stepping
    /\ \E t \in 1..Threads :
         LET th == par.threads[t]
         IN  /\ th.pc = "store"
             /\ par' = [par EXCEPT
                          !.temp.data[th.cell] = th.value,
                          !.writes[th.cell] = @ \cup {t},
                          !.temp_locks[th.cell].writer = {},
                          !.threads[t] =
                              IF t \in par.field_locks[th.cell].readers
                              THEN [th EXCEPT !.pc = "drop"]
                              ELSE IdleThread]
    /\ UNCHANGED <<pc, rule, gol_std, gol_conv, gol_fft, rule_args, frame, tui, iter, cli>>

\* the second assignment ends: the read guard on elem_field is dropped, and
\* the closure ends
Closure_drop ==
    /\ pc = "gameoflife"
    /\ par.stepping
    /\ \E t \in 1..Threads :
         LET th == par.threads[t]
         IN  /\ th.pc = "drop"
             /\ par' = [par EXCEPT
                          !.field_locks[th.cell].readers = @ \ {t},
                          !.threads[t] = IdleThread]
    /\ UNCHANGED <<pc, rule, gol_std, gol_conv, gol_fft, rule_args, frame, tui, iter, cli>>

\* par_for_each has returned: self.field = temp, and the call returns
GameOfLifeStd_publish ==
    /\ pc = "gameoflife"
    /\ par.stepping
    /\ par_for_each_returns(par)
    /\ gol_std' = [gol_std EXCEPT !.field = par.temp, !.gen = @ + 1]
    /\ par' = Idle
    /\ UNCHANGED <<pc, rule, gol_conv, gol_fft, rule_args, frame, tui, iter, cli>>

NextPar ==
    \/ GIF_frame
    \/ GameOfLifeStd_begin
    \/ Closure_begin
    \/ Closure_count_read
    \/ Closure_count_drop
    \/ Closure_if
    \/ Closure_if_drop
    \/ Closure_else_if
    \/ Closure_else_if_drop
    \/ Closure_read
    \/ Closure_write
    \/ Closure_store
    \/ Closure_drop
    \/ GameOfLifeStd_publish
    \/ GameOfLifeConvolution_compute_next_generation

SpecPar == InitPar /\ [][NextPar]_vars

\* the games of the runs in which termination is followed: the rules of
\* ParRules with the most states, every 1x2 grid
InitLock ==
    /\ InitPar
    /\ rule.state = MaxState
    /\ gol_std.field.shape = <<1, 2>>

\* the pool runs a thread that can take a step: the program does not stop
\* while some thread can go on
SpecLock == InitLock /\ [][NextPar]_vars /\ WF_vars(NextPar)

-----------------------------------------------------------------------------
(* GameOfLifeIter: into_iter() and the calls of next()                     *)

\* calls of next() made after the grid's numx*numy
MaxFurtherCalls == 2

\* into_iter: x and y at 0. returns holds what the calls of next() returned,
\* at the (x, y) each of them passed to cell
GameOfLifeIter(gameoflife) ==
    [pc |-> "iter", x |-> 0, y |-> 0, returns |-> <<>>, at |-> <<>>]

InitIter ==
    /\ pc = "iter"
    /\ rule = Rule_new(StdSurvival, StdBirth, MaxState, "Moore")
    /\ \E shape \in SmallShapes :
         \E field \in InitialFields(shape, rule.state) :
            gol_std = GameOfLife_new(field, rule)
    /\ gol_conv = NoGame
    /\ gol_fft = NoGame
    /\ rule_args = NoArgs
    /\ par = Idle
    /\ frame = NoFrame
    /\ iter = NoIter
    /\ cli = NoCli
    /\ tui = NoTui

\* GameOfLifeStd::into_iter
IntoIterator_into_iter ==
    /\ pc = "iter"
    /\ iter.pc = "none"
    /\ iter' = GameOfLifeIter(gol_std)
    /\ UNCHANGED <<pc, rule, gol_std, gol_conv, gol_fft, rule_args, par, frame, tui, cli>>

\* GameOfLifeIter::next: x and y are advanced, then the cell is read
Iterator_next ==
    /\ pc = "iter"
    /\ iter.pc = "iter"
    /\ Len(iter.returns) < gol_std.numx * gol_std.numy + MaxFurtherCalls
    /\ LET y == iter.y + (iter.x + 1) \div gol_std.numx
           x == (iter.x + 1) % gol_std.numx
       IN  iter' = [iter EXCEPT !.x = x,
                                !.y = y,
                                !.returns = Append(@, cell(gol_std, x, y)),
                                !.at = Append(@, <<x, y>>)]
    /\ UNCHANGED <<pc, rule, gol_std, gol_conv, gol_fft, rule_args, par, frame, tui, cli>>

NextIter ==
    \/ IntoIterator_into_iter
    \/ Iterator_next

SpecIter == InitIter /\ [][NextIter]_vars

-----------------------------------------------------------------------------
(* parse_cli: the --neighbor argument, NeighborRule::from_str and Display  *)

\* the capital and the small letters of the names
UpperCase == <<"E", "M", "N", "O", "R", "U", "V", "A">>
LowerCase == <<"e", "m", "n", "o", "r", "u", "v", "a">>

\* char::to_lowercase and char::to_uppercase on the characters of the names
char_to_lowercase(ch) ==
    IF \E k \in 1..Len(UpperCase) : UpperCase[k] = ch
    THEN LowerCase[CHOOSE k \in 1..Len(UpperCase) : UpperCase[k] = ch]
    ELSE ch
char_to_uppercase(ch) ==
    IF \E k \in 1..Len(LowerCase) : LowerCase[k] = ch
    THEN UpperCase[CHOOSE k \in 1..Len(LowerCase) : LowerCase[k] = ch]
    ELSE ch

\* str::to_lowercase, a text being the sequence of its characters
to_lowercase(input) == [k \in 1..Len(input) |-> char_to_lowercase(input[k])]

Ok(v) == [ok |-> TRUE, value |-> v]
Err == [ok |-> FALSE]

\* the patterns of the match in from_str
Name_m == <<"m">>
Name_moore == <<"m", "o", "o", "r", "e">>
Name_v == <<"v">>
Name_vn == <<"v", "n">>
Name_vonneumann == <<"v", "o", "n", "n", "e", "u", "m", "a", "n", "n">>

\* NeighborRule::from_str
from_str(input) ==
    LET lower == to_lowercase(input)
    IN  CASE lower = Name_m -> Ok("Moore")
          [] lower = Name_moore -> Ok("Moore")
          [] lower = Name_v -> Ok("VonNeumann")
          [] lower = Name_vn -> Ok("VonNeumann")
          [] lower = Name_vonneumann -> Ok("VonNeumann")
          [] OTHER -> Err

\* Display for NeighborRule: "Moore" and "von Neumann"
to_string(r) ==
    IF r = "Moore"
    THEN <<"M", "o", "o", "r", "e">>
    ELSE <<"v", "o", "n", " ", "N", "e", "u", "m", "a", "n", "n">>

\* a name in every mix of capital and small letters
Spellings(name) ==
    {[k \in 1..Len(name) |-> IF k \in capitals THEN char_to_uppercase(name[k]) ELSE name[k]] :
        capitals \in SUBSET (1..Len(name))}

\* the texts given as --neighbor: the names of the match and the texts of
\* Display in every spelling, and texts that are no name
NeighborStrings ==
    Spellings(Name_m) \cup Spellings(Name_moore) \cup Spellings(Name_v)
        \cup Spellings(Name_vn) \cup Spellings(Name_vonneumann)
        \cup Spellings(to_lowercase(to_string("VonNeumann")))
        \cup {<<>>, <<"n">>, <<"m", "o", "o", "r">>, <<"v", "o", "n">>}

InitCli ==
    /\ pc = "cli"
    /\ rule = NoRule
    /\ gol_std = NoGame
    /\ gol_conv = NoGame
    /\ gol_fft = NoGame
    /\ rule_args = NoArgs
    /\ par = Idle
    /\ frame = NoFrame
    /\ iter = NoIter
    /\ cli = NoCli
    /\ tui = NoTui

\* parse_cli with --neighbor given: the rule from_str returns, or the message
\* that lists the names Display prints and exit(exitcode::CONFIG)
parse_cli_neighbor ==
    /\ pc = "cli"
    /\ cli.pc = "none"
    /\ \E neighbor_string \in NeighborStrings :
         LET parsed == from_str(neighbor_string)
         IN  cli' = [pc |-> IF parsed.ok THEN "parsed" ELSE "exit",
                     neighbor_string |-> neighbor_string,
                     neighbor_algorithm |-> parsed,
                     listed |-> IF parsed.ok
                                THEN {}
                                ELSE {to_string(r) : r \in NeighborRule}]
    /\ UNCHANGED <<pc, rule, gol_std, gol_conv, gol_fft, rule_args, par, frame, tui, iter>>

\* parse_cli without --neighbor: NeighborRule::Moore
parse_cli_default ==
    /\ pc = "cli"
    /\ cli.pc = "none"
    /\ cli' = [pc |-> "parsed", neighbor_string |-> <<>>,
               neighbor_algorithm |-> Ok("Moore"), listed |-> {}]
    /\ UNCHANGED <<pc, rule, gol_std, gol_conv, gol_fft, rule_args, par, frame, tui, iter>>

NextCli ==
    \/ parse_cli_neighbor
    \/ parse_cli_default

SpecCli == InitCli /\ [][NextCli]_vars

-----------------------------------------------------------------------------
(* The two u8 engines on rules with up to MaxDecayState states, where a    *)
(* decaying cell can hold a value above 1                                  *)

\* largest maxState of the rules of SpecConv
MaxDecayState == 3

\* rules in which a count lies in the survival set alone, in the birth set
\* alone and in both
ConvRules ==
    {Rule_new(f[1], f[2], state, neighbor) :
        f \in {<<StdSurvival, StdBirth>>,
               <<Range(1, 5), One(1)>>,
               <<One(0), Numbers(<<2, 0, 2>>)>>},
        state \in 1..MaxDecayState, neighbor \in NeighborRule}

\* every 2x2 grid of the rule's states, every 3x3 grid of dead and alive cells
ConvFields(state) ==
    {Array2(<<2, 2>>, data) : data \in [Cells(<<2, 2>>) -> 0..state]}
        \cup {Array2(<<3, 3>>, data) : data \in [Cells(<<3, 3>>) -> {0, state}]}

InitConv ==
    /\ pc = "gameoflife"
    /\ rule \in ConvRules
    /\ \E field \in ConvFields(rule.state) :
          /\ gol_std = GameOfLife_new(field, rule)
          /\ gol_conv = GameOfLife_new(field, rule)
    /\ gol_fft = NoGame
    /\ rule_args = NoArgs
    /\ par = Idle
    /\ frame = NoFrame
    /\ iter = NoIter
    /\ cli = NoCli
    /\ tui = NoTui

NextConv ==
    \/ GameOfLifeStd_compute_next_generation
    \/ GameOfLifeConvolution_compute_next_generation

SpecConv == InitConv /\ [][NextConv]_vars

-----------------------------------------------------------------------------
(* Vocabulary of the properties *)

\* the game as it was when its last compute_next_generation call began
Before(self) == [self EXCEPT !.field = self.prev]

AbsDiff(a, b) == IF a >= b THEN a - b ELSE b - a

\* the cells of the 3x3 block centred at (x, y) that lie inside the field,
\* without (x, y)
MooreBlock(shape, x, y) ==
    {d \in Cells(shape) :
        /\ d # <<x, y>>
        /\ AbsDiff(d[1], x) <= 1
        /\ AbsDiff(d[2], y) <= 1}

\* those of (x-1, y), (x+1, y), (x, y-1), (x, y+1) that lie inside the field
VonNeumannCross(shape, x, y) ==
    {<<x - 1, y>>, <<x + 1, y>>, <<x, y - 1>>, <<x, y + 1>>} \cap Cells(shape)

\* a 3x3 array given by its rows
Arr3x3(rows) ==
    Array2(<<3, 3>>, [c \in Cells(<<3, 3>>) |-> rows[c[1] + 1][c[2] + 1]])

AllAlive3x3(state) == Arr3x3(<<<<state, state, state>>,
                               <<state, state, state>>,
                               <<state, state, state>>>>)

\* the table of count_living_neighbors over the whole field
CountTable(self) ==
    Array2(self.field.shape,
           [c \in Cells(self.field.shape) |-> count_living_neighbors(self, c[1], c[2])])

IsStandardRule(r) ==
    /\ r.survival = MaskOf({2, 3})
    /\ r.birth = MaskOf({3})

-----------------------------------------------------------------------------
(* C1 *)

\* C1: for every rule with maxState >= 1 and every initial grid with cells in
\* 0..maxState, GameOfLifeStd and GameOfLifeConvolution of gameoflife.rs hold
\* identical grids after the same number of compute_next_generation calls.
C1_StdConvIdentical ==
    (/\ pc = "gameoflife"
     /\ gol_std.rules.state >= 1
     /\ gol_std.gen = gol_conv.gen)
    => gol_std.field = gol_conv.field

-----------------------------------------------------------------------------
(* C2 *)

\* the next value of a cell as the rule states it
C2_Expected(self, x, y) ==
    LET count == count_living_neighbors(self, x, y)
        old == self.field.data[<<x, y>>]
        becomesAlive ==
            \/ self.rules.birth[count]
            \/ (old = self.rules.state /\ self.rules.survival[count])
    IN  CASE becomesAlive -> self.rules.state
          [] ~becomesAlive /\ old > 0 -> old - 1
          [] OTHER -> 0

\* C2: after GameOfLifeStd::compute_next_generation every cell holds maxState
\* if birth[count] or (it was at maxState and survival[count]), else its old
\* value minus 1 if that was > 0, else 0; the standard rule turns the 3x3
\* all-alive grid into [[1,0,1],[0,0,0],[1,0,1]].
C2_StdStepRule ==
    (pc = "gameoflife" /\ gol_std.gen >= 1) =>
        /\ gol_std.field.shape = gol_std.prev.shape
        /\ \A c \in Cells(gol_std.prev.shape) :
              gol_std.field.data[c] = C2_Expected(Before(gol_std), c[1], c[2])
        /\ (/\ gol_std.prev = AllAlive3x3(1)
            /\ IsStandardRule(gol_std.rules)
            /\ gol_std.rules.state = 1
            /\ gol_std.rules.neighbor = "Moore")
           => gol_std.field = Arr3x3(<<<<1, 0, 1>>, <<0, 0, 0>>, <<1, 0, 1>>>>)

\* the standard rule has stepped the 3x3 all-alive grid
C2_Witness ==
    /\ pc = "gameoflife"
    /\ gol_std.gen = 1
    /\ gol_std.prev = AllAlive3x3(1)
    /\ IsStandardRule(gol_std.rules)
    /\ gol_std.rules.state = 1
    /\ gol_std.rules.neighbor = "Moore"
    /\ gol_std.field = Arr3x3(<<<<1, 0, 1>>, <<0, 0, 0>>, <<1, 0, 1>>>>)

-----------------------------------------------------------------------------
(* C3 *)

\* C3: under Moore mode count_living_neighbors(x, y) is the number of cells at
\* maxState among the in-bounds cells of the 3x3 block centred at (x, y),
\* without (x, y) and without wraparound, on every grid (1-wide and 1-high
\* ones too); on the 3x3 all-alive grid the counts are [[3,5,3],[5,8,5],[3,5,3]].
C3_MooreCount ==
    (pc = "gameoflife" /\ gol_std.rules.neighbor = "Moore") =>
        /\ \A c \in Cells(gol_std.field.shape) :
              count_living_neighbors(gol_std, c[1], c[2])
                = Cardinality({d \in MooreBlock(gol_std.field.shape, c[1], c[2]) :
                                 gol_std.field.data[d] = gol_std.rules.state})
        /\ gol_std.field = AllAlive3x3(gol_std.rules.state)
           => CountTable(gol_std) = Arr3x3(<<<<3, 5, 3>>, <<5, 8, 5>>, <<3, 5, 3>>>>)

\* a 3x3 all-alive Moore game, whose centre counts 8 neighbours
C3_Witness ==
    /\ pc = "gameoflife"
    /\ gol_std.rules.neighbor = "Moore"
    /\ gol_std.rules.state = 1
    /\ gol_std.field = AllAlive3x3(1)
    /\ count_living_neighbors(gol_std, 1, 1) = 8
    /\ count_living_neighbors(gol_std, 0, 2) = 3

-----------------------------------------------------------------------------
(* C4 *)

\* C4: under Von Neumann mode count_living_neighbors(x, y) is the number of
\* cells at maxState among those of (x-1,y), (x+1,y), (x,y-1), (x,y+1) inside
\* the grid, the others being left out and never wrapped; on the 3x3 all-alive
\* grid the counts are [[2,3,2],[3,4,3],[2,3,2]].
C4_VonNeumannCount ==
    (pc = "gameoflife" /\ gol_std.rules.neighbor = "VonNeumann") =>
        /\ \A c \in Cells(gol_std.field.shape) :
              count_living_neighbors(gol_std, c[1], c[2])
                = Cardinality({d \in VonNeumannCross(gol_std.field.shape, c[1], c[2]) :
                                 gol_std.field.data[d] = gol_std.rules.state})
        /\ gol_std.field = AllAlive3x3(gol_std.rules.state)
           => CountTable(gol_std) = Arr3x3(<<<<2, 3, 2>>, <<3, 4, 3>>, <<2, 3, 2>>>>)

\* a 3x3 all-alive Von Neumann game, whose centre counts 4 neighbours
C4_Witness ==
    /\ pc = "gameoflife"
    /\ gol_std.rules.neighbor = "VonNeumann"
    /\ gol_std.rules.state = 1
    /\ gol_std.field = AllAlive3x3(1)
    /\ count_living_neighbors(gol_std, 1, 1) = 4
    /\ count_living_neighbors(gol_std, 2, 0) = 2

-----------------------------------------------------------------------------
(* C5 *)

\* whether the step from Before(self) to self treated the cell c as decay
\* demands, count being the neighbour count the step used for c
C5_CellDecays(self, c, count) ==
    LET old == self.prev.data[c]
        new == self.field.data[c]
    IN  /\ (/\ old > 0
            /\ ~self.rules.birth[count]
            /\ ~self.rules.survival[count]) => new = old - 1
        /\ (old = 0 /\ ~self.rules.birth[count]) => new = 0

\* C5: with maxState > 1, in both engines, a cell whose neighbour count is in
\* neither the birth nor the survival set goes one step down in each
\* generation (maxState, maxState-1, ..., 0), and a cell at 0 stays at 0 in
\* every generation in which its count is not in the birth set.
C5_Decay ==
    (pc = "gameoflife" /\ gol_std.rules.state > 1) =>
        /\ gol_std.gen >= 1 =>
              \A c \in Cells(gol_std.field.shape) :
                 C5_CellDecays(gol_std, c,
                               count_living_neighbors(Before(gol_std), c[1], c[2]))
        /\ gol_conv.gen >= 1 =>
              \A c \in Cells(gol_conv.field.shape) :
                 C5_CellDecays(gol_conv, c, Conv_temp(Before(gol_conv)).data[c])

\* whether the cell c of the game went from 1 to 0 in the last step, under a
\* count in neither set
C5_LastDecayStep(self, c, count) ==
    /\ self.prev.data[c] = 1
    /\ self.field.data[c] = 0
    /\ ~self.rules.birth[count]
    /\ ~self.rules.survival[count]

\* after two generations of a game with maxState 2, a cell of each engine has
\* just gone from 1 to 0
C5_Witness ==
    /\ pc = "gameoflife"
    /\ gol_std.rules.state = 2
    /\ gol_std.gen = 2
    /\ gol_conv.gen = 2
    /\ \E c \in Cells(gol_std.field.shape) :
          /\ C5_LastDecayStep(gol_std, c,
                              count_living_neighbors(Before(gol_std), c[1], c[2]))
          /\ C5_LastDecayStep(gol_conv, c, Conv_temp(Before(gol_conv)).data[c])

-----------------------------------------------------------------------------
(* C6 *)

CellsInRange(self) ==
    \A c \in Cells(self.field.shape) :
        self.field.data[c] \in 0..self.rules.state

\* C6: with maxState >= 1 and an initial grid with cells in 0..maxState, every
\* cell of both engines is in 0..maxState after any number of
\* compute_next_generation calls.
C6_CellsStayInRange ==
    (pc = "gameoflife" /\ gol_std.rules.state >= 1) =>
        /\ CellsInRange(gol_std)
        /\ CellsInRange(gol_conv)

\* both engines have computed two generations of a game with maxState 2 and
\* the convolution game holds an alive, a decaying and a dead cell
C6_Witness ==
    /\ pc = "gameoflife"
    /\ gol_std.rules.state = 2
    /\ gol_std.gen = 2
    /\ gol_conv.gen = 2
    /\ CellsInRange(gol_std)
    /\ CellsInRange(gol_conv)
    /\ \E a, b, c \in Cells(gol_conv.field.shape) :
          /\ gol_conv.field.data[a] = 2
          /\ gol_conv.field.data[b] = 1
          /\ gol_conv.field.data[c] = 0

-----------------------------------------------------------------------------
(* C7 *)

\* C7: GameOfLifeFFT::compute_next_generation completes on every boolean grid
\* and leaves the grid the boolean GameOfLifeConvolution and GameOfLifeStd
\* leave after as many calls; the neighbour counts it uses have the shape of
\* the grid.
C7_FFTCompletesAndAgrees ==
    pc = "game_of_life" =>
        /\ ~gol_fft.panicked
        /\ (gol_fft.gen >= 1 \/ gol_fft.panicked)
              => FFT_temp(Before(gol_fft)).shape = gol_fft.prev.shape
        /\ gol_fft.gen = gol_conv.gen => gol_fft.field = gol_conv.field
        /\ gol_fft.gen = gol_std.gen => gol_fft.field = gol_std.field

-----------------------------------------------------------------------------
(* C8 *)

\* C8: for maxState = 1, whatever the masks and the neighbour mode,
\* GameOfLifeStd and GameOfLifeConvolution of gameoflife.rs started from one
\* 0/1 grid hold identical grids before the first step and after the same
\* number of compute_next_generation calls.
C8_TwoStateIdentical ==
    (/\ pc = "gameoflife"
     /\ gol_std.rules.state = 1
     /\ gol_std.gen = gol_conv.gen)
    => gol_std.field = gol_conv.field

\* two generations of a two-state Von Neumann game, in which the last one
\* changed the grid and left a cell alive
C8_Witness ==
    /\ pc = "gameoflife"
    /\ gol_std.rules.state = 1
    /\ gol_std.rules.neighbor = "VonNeumann"
    /\ gol_std.gen = 2
    /\ gol_conv.gen = 2
    /\ gol_std.field = gol_conv.field
    /\ gol_conv.field # gol_conv.prev
    /\ \E c \in Cells(gol_conv.field.shape) : gol_conv.field.data[c] = 1

-----------------------------------------------------------------------------
(* C9 *)

\* whether the last step of a boolean game set every cell by the rule: true
\* iff its Moore count was 3, or it was true and its count was 2
C9_StepRule(self) ==
    \A c \in Cells(self.field.shape) :
        LET count == Cardinality({d \in MooreBlock(self.prev.shape, c[1], c[2]) :
                                    self.prev.data[d]})
        IN  self.field.data[c] <=> (count = 3 \/ (self.prev.data[c] /\ count = 2))

\* C9: in game_of_life.rs, GameOfLifeStd and GameOfLifeConvolution built from
\* one boolean grid hold identical grids at construction and after the same
\* number of compute_next_generation calls, each call making a cell true iff
\* its Moore count is 3, or it is true and its count is 2.
C9_BoolStdConvIdentical ==
    pc = "game_of_life" =>
        /\ gol_std.gen = gol_conv.gen => gol_std.field = gol_conv.field
        /\ gol_std.gen >= 1 => C9_StepRule(gol_std)
        /\ gol_conv.gen >= 1 => C9_StepRule(gol_conv)

\* two generations of both boolean engines, the last of which changed the
\* grid and left a cell alive
C9_Witness ==
    /\ pc = "game_of_life"
    /\ gol_std.gen = 2
    /\ gol_conv.gen = 2
    /\ gol_std.field = gol_conv.field
    /\ gol_std.field # gol_std.prev
    /\ \E c \in Cells(gol_std.field.shape) : gol_std.field.data[c]

-----------------------------------------------------------------------------
(* C10 *)

\* C10: Rule::new fails when maxState is 0: no Rule with state 0 is
\* constructed, and none reaches compute_next_generation.
C10_NoZeroStateRule ==
    /\ pc = "rule" => rule.state # 0
    /\ pc = "gameoflife" =>
          /\ gol_std.gen >= 1 => gol_std.rules.state # 0
          /\ (gol_conv.gen >= 1 \/ gol_conv.panicked) => gol_conv.rules.state # 0

-----------------------------------------------------------------------------
(* C11 *)

\* whether a LifeRule encodes a count greater than 8
C11_CountAbove8(lr) ==
    CASE lr.kind = "One" -> lr.one > 8
      [] lr.kind = "Range" -> lr.start < lr.end /\ lr.end - 1 > 8
      [] lr.kind = "Numbers" -> \E i \in 1..Len(lr.array) : lr.array[i] > 8
      [] lr.kind = "Raw" -> FALSE

\* C11: Rule::new called with a survival or birth spec that encodes a count
\* greater than 8 (One(k), a Range reaching past 8, Numbers containing k > 8)
\* ends with an invalid-rule error handed to the caller as a value, and
\* produces no Rule.
C11_InvalidCountIsErrorValue ==
    (/\ rule_args # NoArgs
     /\ \/ C11_CountAbove8(rule_args.survival)
        \/ C11_CountAbove8(rule_args.birth))
    => (pc = "error" /\ rule = NoRule)

-----------------------------------------------------------------------------
(* C12 *)

\* whether the next compute_next_generation call of the convolution game
\* takes state - elem below 0 for some cell
C12_Underflows(self) ==
    Conv_overflows(self, Conv_field_first(self, Conv_temp(self)))

\* C12: for every Rule that Rule::new returns and every grid with cells in
\* 0..maxState, compute_next_generation of both engines completes without
\* error: the count that indexes survival and birth is in 0..8 and no u8
\* subtraction goes below 0.
C12_StepsNeverFail ==
    (pc = "gameoflife" /\ gol_std.numx >= 1 /\ gol_std.numy >= 1) =>
        /\ ~gol_conv.panicked
        /\ gol_conv.gen >= 1 => ~C12_Underflows(Before(gol_conv))
        /\ \A c \in Cells(gol_std.field.shape) :
              /\ count_living_neighbors(gol_std, c[1], c[2]) \in 0..(MaskLen - 1)
              /\ Conv_temp(gol_conv).data[c] \in 0..(MaskLen - 1)

-----------------------------------------------------------------------------
(* C13 *)

\* largest coordinate asked of cell
MaxCoord == 4

\* whether cell answers every pair of coordinates as the claim states
C13_Lookup(self) ==
    \A x, y \in 0..MaxCoord :
        cell(self, x, y)
          = IF x < self.numx /\ y < self.numy
            THEN Some(self.field.data[<<x, y>>])
            ELSE None

\* C13: for both engines and every pair of coordinates, cell(x, y) is
\* Some(current state of the cell) when x < numx and y < numy and None
\* otherwise; it never panics and never gives the value of another cell.
C13_CellSomeOrNone ==
    pc = "gameoflife" => (C13_Lookup(gol_std) /\ C13_Lookup(gol_conv))

\* a 2x3 game after a step that changed the cell (1, 2): cell gives its new
\* value, and None one past the last column and one past the last row
C13_Witness ==
    /\ pc = "gameoflife"
    /\ gol_std.field.shape = <<2, 3>>
    /\ gol_std.gen = 1
    /\ gol_conv.gen = 1
    /\ gol_std.field.data[<<1, 2>>] # gol_std.prev.data[<<1, 2>>]
    /\ cell(gol_std, 1, 2) = Some(gol_std.field.data[<<1, 2>>])
    /\ cell(gol_conv, 1, 2) = Some(gol_conv.field.data[<<1, 2>>])
    /\ cell(gol_std, 2, 1) = None
    /\ cell(gol_conv, 1, 3) = None

-----------------------------------------------------------------------------
(* C14 *)

\* C14: constructing either engine from a field with numx = 0 or numy = 0
\* fails at construction: no zero-sized game exists, and none is stepped.
C14_NoZeroSizedGame ==
    pc = "gameoflife" =>
        /\ gol_std.numx >= 1 /\ gol_std.numy >= 1
        /\ gol_conv.numx >= 1 /\ gol_conv.numy >= 1

-----------------------------------------------------------------------------
(* C15 *)

\* the set S of counts a LifeRule stands for
C15_Counts(lr) ==
    CASE lr.kind = "One" -> {lr.one}
      [] lr.kind = "Range" -> {i \in 0..(MaskLen - 1) : lr.start <= i /\ i < lr.end}
      [] lr.kind = "Numbers" -> {lr.array[i] : i \in 1..Len(lr.array)}
      [] lr.kind = "Raw" -> {i \in 0..(MaskLen - 1) : lr.array[i]}

\* C15: every form of LifeRule is stored as the same 9-element mask: for a
\* set S of counts in 0..8, Numbers listing S in any order and with repeats,
\* Raw of the mask of S, Range(a..b) for S = {a..b-1} and One(k) for S = {k}
\* all give the mask that is true at index i exactly when i is in S.
C15_FormsNormalize ==
    (pc = "rule" /\ rule_args # NoArgs) =>
        /\ rule.survival = MaskOf(C15_Counts(rule_args.survival))
        /\ rule.birth = MaskOf(C15_Counts(rule_args.birth))
        /\ \A i \in 0..(MaskLen - 1) :
              rule.survival[i] <=> i \in C15_Counts(rule_args.survival)

\* Rule::new has stored Numbers(&[3, 2, 3]) as the mask of {2, 3}, the one
\* Raw and Range(2..4) are stored as
C15_Witness ==
    /\ pc = "rule"
    /\ rule_args # NoArgs
    /\ rule_args.survival = Numbers(<<3, 2, 3>>)
    /\ rule.survival = MaskOf({2, 3})
    /\ rule.survival = into_array(Range(2, 4))
    /\ rule.survival = into_array(Raw(MaskOf({2, 3})))

-----------------------------------------------------------------------------
(* C16 *)

\* whether the game still has the rule it was constructed with and a grid of
\* numx x numy cells, as its last step found it
C16_Frame(self) ==
    /\ self.rules = rule
    /\ self.field.shape = <<self.numx, self.numy>>
    /\ self.prev.shape = <<self.numx, self.numy>>
    /\ DOMAIN self.field.data = Cells(<<self.numx, self.numy>>)
    /\ Cardinality(DOMAIN self.field.data) = self.numx * self.numy

\* C16: compute_next_generation changes only cell contents: after any number
\* of calls on either engine numx, numy, state and the rule's survival mask,
\* birth mask and neighbour mode are those of construction, and the grid
\* still has numx x numy cells.
C16_StepChangesOnlyCells ==
    pc = "gameoflife" =>
        /\ C16_Frame(gol_std)
        /\ C16_Frame(gol_conv)
        /\ gol_std.numx = gol_conv.numx
        /\ gol_std.numy = gol_conv.numy

\* two generations of a 2x3 game under a rule given to Rule::new, the last of
\* which changed cells of both engines
C16_Witness ==
    /\ pc = "gameoflife"
    /\ rule_args # NoArgs
    /\ gol_std.gen = 2
    /\ gol_conv.gen = 2
    /\ gol_std.field # gol_std.prev
    /\ gol_conv.field # gol_conv.prev
    /\ gol_std.numx = 2 /\ gol_std.numy = 3
    /\ C16_Frame(gol_std)
    /\ C16_Frame(gol_conv)

-----------------------------------------------------------------------------
(* C17 *)

\* the neighbours of the cell c under the game's neighbour mode
C17_Neighbours(self, c) ==
    IF self.rules.neighbor = "Moore"
    THEN MooreBlock(self.field.shape, c[1], c[2])
    ELSE VonNeumannCross(self.field.shape, c[1], c[2])

\* what the two statements of the convolution game's update make of the cell
\* c, from the values of the grid `before` alone
C17_ConvExpected(before, c) ==
    LET count == Cardinality({d \in C17_Neighbours(before, c) :
                                before.field.data[d] = before.rules.state})
    IN  Conv_second(Conv_first(before.field.data[c],
                               AsInt(before.rules.survival[count]),
                               before.rules.state),
                    AsInt(before.rules.birth[count]),
                    before.rules.state)

\* C17: within one compute_next_generation call of either engine the next
\* state of every cell comes from previous-generation values only: the counts
\* are taken from the previous grid, and no cell's computation reads what the
\* same step wrote for another cell.
C17_OnlyPreviousGeneration ==
    pc = "gameoflife" =>
        /\ par.stepping =>
              /\ gol_std.field = gol_std.prev
              /\ \A c \in Cells(gol_std.field.shape) :
                    par.writes[c] # {} =>
                       par.temp.data[c] = C2_Expected(Before(gol_std), c[1], c[2])
        /\ (~par.stepping /\ gol_std.gen >= 1) =>
              \A c \in Cells(gol_std.field.shape) :
                 gol_std.field.data[c] = C2_Expected(Before(gol_std), c[1], c[2])
        /\ gol_conv.gen >= 1 =>
              \A c \in Cells(gol_conv.field.shape) :
                 gol_conv.field.data[c] = C17_ConvExpected(Before(gol_conv), c)

\* the second call is under way: a worker has changed the value of a cell
\* whose neighbour is still to be processed, and the convolution game has
\* made its first step
C17_Witness ==
    /\ pc = "gameoflife"
    /\ par.stepping
    /\ gol_std.gen = 1
    /\ gol_conv.gen = 1
    /\ gol_conv.field # gol_conv.prev
    /\ \E c \in Cells(gol_std.field.shape) :
          /\ par.writes[c] # {}
          /\ par.temp.data[c] # gol_std.field.data[c]
          /\ \E d \in par.pending : d \in C17_Neighbours(gol_std, c)

-----------------------------------------------------------------------------
(* C18 *)

\* C18: GameOfLifeStd publishes the new generation only once the workers
\* have computed every cell of the fresh buffer: the cell(x, y) reads made
\* between two compute_next_generation calls give one whole generation,
\* never a mix of generation N and N+1.
C18_PublishedWhole ==
    pc = "gameoflife" =>
        /\ par.stepping => gol_std.field = gol_std.prev
        /\ (~par.stepping /\ gol_std.gen >= 1) =>
              gol_std.field = Std_temp(Before(gol_std))
        /\ frame # NoFrame =>
              IF frame.gen = gol_std.gen
              THEN frame.cells = gol_std.field.data
              ELSE /\ frame.gen = gol_std.gen - 1
                   /\ frame.cells = gol_std.prev.data

\* the frame of generation 1 has been read from a grid that the first call
\* changed and in which a cell is alive
C18_Witness ==
    /\ pc = "gameoflife"
    /\ ~par.stepping
    /\ gol_std.gen = 1
    /\ frame # NoFrame
    /\ frame.gen = 1
    /\ frame.cells = gol_std.field.data
    /\ gol_std.field # gol_std.prev
    /\ \E c \in Cells(gol_std.field.shape) :
          gol_std.field.data[c] = gol_std.rules.state

-----------------------------------------------------------------------------
(* C19 *)

\* whether the alive cells of the field are one 2x2 block off the border
C19_IsBlock(field) ==
    \E bx \in 1..(field.shape[1] - 3), by \in 1..(field.shape[2] - 3) :
        field = BlockField(field.shape, bx, by)

\* C19: under survival {2,3}, birth {3}, Moore adjacency and maxState 1, a
\* grid of at least 4x4 whose only alive cells are a 2x2 block in the interior
\* is a fixed point of compute_next_generation of both engines: every step
\* leaves the grid it found, so the grid after any number of steps is the
\* initial one.
C19_BlockIsFixedPoint ==
    pc = "gameoflife" =>
        /\ ~gol_conv.panicked
        /\ gol_std.field = gol_std.prev
        /\ gol_conv.field = gol_conv.prev
        /\ C19_IsBlock(gol_std.field)
        /\ C19_IsBlock(gol_conv.field)

\* both engines have stepped the block of the 4x4 grid twice
C19_Witness ==
    /\ pc = "gameoflife"
    /\ IsStandardRule(gol_std.rules)
    /\ gol_std.rules.state = 1
    /\ gol_std.rules.neighbor = "Moore"
    /\ gol_std.gen = 2
    /\ gol_conv.gen = 2
    /\ gol_std.field = BlockField(<<4, 4>>, 1, 1)
    /\ gol_conv.field = BlockField(<<4, 4>>, 1, 1)

-----------------------------------------------------------------------------
(* C20 *)

\* C20: in TUI::start, whatever time_per_iteration is (below the 200 ms
\* polling interval too), a 'q' pressed while generations remain makes start
\* return before the run is over: at most one further generation is computed
\* once the key is on stdin.
C20_QuitWithinOneGeneration ==
    (pc = "tui" /\ tui.q_at >= 0) => tui.calls <= tui.q_at + 1

-----------------------------------------------------------------------------
\* C21: a run of GIF::start or TUI::start of presentation.rs with
\* iterations = N that returns without a 'q' has called
\* compute_next_generation exactly N times and left the game N generations
\* after its initial grid.
C21_ExactlyNGenerations ==
    (/\ pc = "tui"
     /\ tui.module \in {"presentation", "gif"}
     /\ tui.pc = "returned"
     /\ tui.q_at = -1)
        => /\ tui.calls = tui.iterations
           /\ gol_std.gen = tui.iterations

-----------------------------------------------------------------------------
\* the number of neighbours of the cell c at maxState, counted on the grid
LivingNeighbours(self, c) ==
    Cardinality({d \in C17_Neighbours(self, c) :
                    self.field.data[d] = self.rules.state})

\* C22: in GameOfLifeConvolution, for every maxState >= 1, a cell at maxState
\* whose neighbour count is in the survival set holds maxState after
\* compute_next_generation, whether or not the count is in the birth set; the
\* all-2 3x3 grid under the standard rule with maxState 2 becomes
\* [[2,1,2],[1,1,1],[2,1,2]].
C22_AliveSurvivorStaysAlive ==
    (pc = "gameoflife" /\ gol_conv.gen >= 1 /\ gol_conv.rules.state >= 1) =>
        /\ \A c \in Cells(gol_conv.field.shape) :
              (/\ gol_conv.prev.data[c] = gol_conv.rules.state
               /\ gol_conv.rules.survival[LivingNeighbours(Before(gol_conv), c)])
                  => gol_conv.field.data[c] = gol_conv.rules.state
        /\ (/\ gol_conv.prev = AllAlive3x3(2)
            /\ gol_conv.rules = Rule_new(StdSurvival, StdBirth, 2, "Moore"))
               => gol_conv.field = Arr3x3(<<<<2, 1, 2>>, <<1, 1, 1>>, <<2, 1, 2>>>>)

\* whether the cell c becomes alive in the step from the grid `before`: its
\* count is in the birth set, or it is at maxState and its count is in the
\* survival set
BecomesAlive(before, c) ==
    LET count == LivingNeighbours(before, c)
    IN  \/ before.rules.birth[count]
        \/ /\ before.field.data[c] = before.rules.state
           /\ before.rules.survival[count]

\* C23: in GameOfLifeConvolution, a cell with value s > 0 that does not
\* become alive in the step holds s - 1 after compute_next_generation, also a
\* decaying cell whose count is in the survival set but not the birth set.
C23_NonRevivingCellDecaysByOne ==
    (pc = "gameoflife" /\ gol_conv.gen >= 1 /\ gol_conv.rules.state >= 1) =>
        \A c \in Cells(gol_conv.field.shape) :
           (/\ gol_conv.prev.data[c] > 0
            /\ ~BecomesAlive(Before(gol_conv), c))
               => gol_conv.field.data[c] = gol_conv.prev.data[c] - 1

\* whether every cell of the game whose count was in the birth set holds
\* maxState after the last step
BornCellsAlive(self) ==
    \A c \in Cells(self.field.shape) :
       self.rules.birth[LivingNeighbours(Before(self), c)]
          => self.field.data[c] = self.rules.state

\* C24: in GameOfLifeStd and in GameOfLifeConvolution, every cell, dead,
\* decaying or alive, whose neighbour count is in the birth set holds
\* maxState after compute_next_generation, also when the count is not in the
\* survival set.
C24_BirthWhateverTheState ==
    pc = "gameoflife" =>
        /\ gol_std.gen >= 1 => BornCellsAlive(gol_std)
        /\ gol_conv.gen >= 1 => BornCellsAlive(gol_conv)

\* whether a cell of the game that was at the value s, with a count in the
\* birth set and not in the survival set, holds maxState after the last step
BornFrom(self, s) ==
    \E c \in Cells(self.field.shape) :
       LET count == LivingNeighbours(Before(self), c)
       IN  /\ self.prev.data[c] = s
           /\ self.rules.birth[count]
           /\ ~self.rules.survival[count]
           /\ self.field.data[c] = self.rules.state

\* both engines have made a step of a rule with maxState 3 in which a dead
\* cell, a decaying cell at 2 and an alive cell were raised to maxState by a
\* count in the birth set alone
C24_Witness ==
    /\ pc = "gameoflife"
    /\ gol_std.rules.state = 3
    /\ gol_std.gen >= 1
    /\ gol_conv.gen >= 1
    /\ \A s \in {0, 2, 3} : BornFrom(gol_std, s) /\ BornFrom(gol_conv, s)

\* C25: in GameOfLifeConvolution, the zero-padded convolution of the
\* is-alive mask with the Moore or the Von Neumann kernel equals, at every
\* position of every grid, what GameOfLifeStd::count_living_neighbors returns
\* for that cell under the same mode.
C25_ConvolutionIsNeighbourCount ==
    pc = "gameoflife" =>
        \A c \in Cells(gol_conv.field.shape) :
           Conv_temp(gol_conv).data[c] = count_living_neighbors(gol_conv, c[1], c[2])

\* a 3x3 grid after a step: a corner with alive neighbours, an edge cell and
\* the centre with all its neighbours alive under the mode
C25_Witness ==
    /\ pc = "gameoflife"
    /\ gol_conv.gen >= 1
    /\ gol_conv.field.shape = <<3, 3>>
    /\ LET temp == Conv_temp(gol_conv)
           full == IF gol_conv.rules.neighbor = "Moore" THEN 8 ELSE 4
       IN  /\ temp.data[<<0, 0>>] >= 2
           /\ temp.data[<<2, 1>>] >= 3
           /\ temp.data[<<1, 1>>] = full

-----------------------------------------------------------------------------
\* whether a thread is running the closure on the cell c
InClosure(work, c) ==
    \E t \in 1..Threads : work.threads[t].pc # "idle" /\ work.threads[t].cell = c

\* C26: the grid GameOfLifeStd::compute_next_generation produces does not
\* depend on scheduling: under every interleaving of the threads each cell is
\* handed to exactly one thread, only that thread stores into its temp cell,
\* a cell whose closure stores nothing is left at the buffer's default 0, and
\* the resulting grid is the one obtained by evaluating the cells one after
\* another.
C26_SchedulingIndependent ==
    pc = "gameoflife" =>
        /\ par.stepping =>
              \A c \in Cells(gol_std.field.shape) :
                 /\ Cardinality(par.taken[c]) = (IF c \in par.pending THEN 0 ELSE 1)
                 /\ par.writes[c] \subseteq par.taken[c]
                 /\ (c \notin par.pending /\ ~InClosure(par, c)) =>
                       /\ par.temp.data[c] = Std_elem_temp(gol_std, c[1], c[2])
                       /\ par.writes[c] = {} => par.temp.data[c] = 0
        /\ (~par.stepping /\ gol_std.gen >= 1) =>
              gol_std.field = Std_temp(Before(gol_std))

\* C26 as first stated: when par_for_each has returned, each cell of the new
\* buffer has been written by exactly one worker.
C26_EveryCellWrittenOnce ==
    (pc = "gameoflife" /\ par.stepping /\ par_for_each_returns(par)) =>
        \A c \in Cells(gol_std.field.shape) : Cardinality(par.writes[c]) = 1

\* the closures of the two threads overlap: thread 2 has stored into the temp
\* cell of (0,1) and is about to drop the read guard of its decrement, while
\* thread 1, counting for (0,0), holds a read guard on the same lock
C26_Witness ==
    /\ pc = "gameoflife"
    /\ par.stepping
    /\ par.threads[1].pc = "counted"
    /\ par.threads[1].cell = <<0, 0>>
    /\ par.threads[2].pc = "drop"
    /\ par.threads[2].cell = <<0, 1>>
    /\ par.writes[<<0, 1>>] = {2}
    /\ par.field_locks[<<0, 1>>].readers = {1, 2}

\* C27: every GameOfLifeStd::compute_next_generation call terminates under
\* every interleaving of its threads: no thread waits for ever on the RwLock
\* of a cell.
C27_StepTerminates ==
    (pc = "gameoflife" /\ par.stepping) ~> ~par.stepping

\* thread 1 is inside the second assignment of the closure, with the read
\* guard of its field cell and the write guard of its temp cell, while thread
\* 2, counting, holds a read guard on the same field lock
C27_Witness ==
    /\ pc = "gameoflife"
    /\ par.stepping
    /\ par.threads[1].pc = "store"
    /\ par.threads[2].pc = "counted"
    /\ par.field_locks[par.threads[1].cell].readers = {1, 2}
    /\ par.temp_locks[par.threads[1].cell].writer = {1}

-----------------------------------------------------------------------------
\* C28: iterating a game with into_iter() on a grid with numx >= 1 and
\* numy >= 1 yields exactly numx*numy values, the state of every cell exactly
\* once beginning with cell (0,0), and None on every further call.
C28_IteratesEveryCellOnce ==
    (pc = "iter" /\ iter.pc = "iter") =>
        LET n == gol_std.numx * gol_std.numy
            calls == Len(iter.returns)
        IN  /\ \A k \in 1..calls :
                  IF k <= n
                  THEN /\ iter.at[k] \in Cells(gol_std.field.shape)
                       /\ iter.returns[k] = Some(gol_std.field.data[iter.at[k]])
                  ELSE iter.returns[k] = None
            /\ calls >= 1 => iter.at[1] = <<0, 0>>
            /\ \A j, k \in 1..calls : (j < k /\ k <= n) => iter.at[j] # iter.at[k]

\* C29: for both NeighborRule values r, parsing the text Display prints for r
\* gives r back, so every name the message of parse_cli lists is accepted as
\* the --neighbor argument.
C29_DisplayedNamesParse ==
    (pc = "cli" /\ cli.pc # "none") =>
        \A r \in NeighborRule :
           cli.neighbor_string = to_string(r) =>
              /\ cli.pc = "parsed"
              /\ cli.neighbor_algorithm = Ok(r)

====
